---- MODULE Spec2Model ----
(***************************************************************************)
(* A model of the video-hash filesystem cache: VideoHashFilesystemCache    *)
(* (a thin layer over ProcessingFsCache<GenericCacheIf>) and FileProjection.*)
(* The filesystem and the hash-producing routine are the environment.      *)
(***************************************************************************)
EXTENDS Integers, Sequences, FiniteSets, TLC

(***************************************************************************)
(* Bounds of the model.                                                    *)
(***************************************************************************)
\* modification times of a file range over 1..MaxMtime
MaxMtime == 2

(***************************************************************************)
(* Paths.  A path is the sequence of its components (std::path::Path       *)
(* compares component-wise); a component is a stem and an extension.       *)
(***************************************************************************)
Comp(stem, ext) == [stem |-> stem, ext |-> ext]

V == <<Comp("videos", "")>>
VX == <<Comp("videos", ""), Comp("x", "")>>
VA == <<Comp("videos", ""), Comp("a", "mp4")>>
VXB == <<Comp("videos", ""), Comp("x", ""), Comp("b", "mp4")>>
\* more of the tree, for the projections: two more files of the directory,
\* a directory whose name has an extension and a file in it, and a path
\* that is never there
VB == <<Comp("videos", ""), Comp("b", "mp4")>>
VN == <<Comp("videos", ""), Comp("notes", "txt")>>
VT == <<Comp("videos", ""), Comp("d", "TXT")>>
VTC == <<Comp("videos", ""), Comp("d", "TXT"), Comp("c", "mp4")>>
VY == <<Comp("videos", ""), Comp("y", "")>>

\* the directories (always there) and the regular files (come and go): those
\* the cache is run on, and those the projections alone are run on
Dirs == {V, VX, VT}
Files == {VA, VXB}
ProjFiles == {VA, VB, VN, VXB, VTC}

\* what a file can hold: contents the Producer turns into a hash, and
\* contents it rejects
Contents == {"good", "short"}

NoFile == [mtime |-> 0, content |-> "none"]
FileStates == {NoFile} \cup [mtime : 1..MaxMtime, content : Contents]

VARIABLES
    fs,         \* the filesystem: file path -> NoFile or its mtime and content
    store,      \* the Store (ProcessingFsCache): file path -> entry
    proj,       \* the FileProjection the caller holds
    upd,        \* the update_using_fs call in progress
    ret,        \* the last call made and what it returned
    synced,     \* the files not changed since fetch_update last visited them
    conc        \* the fetch_update calls in flight on other threads

vars == <<fs, store, proj, upd, ret, synced, conc>>

(***************************************************************************)
(* Path predicates.                                                        *)
(***************************************************************************)
\* Path::starts_with: base is a whole-component prefix of p
StartsWith(p, base) ==
    /\ Len(base) <= Len(p)
    /\ \A i \in 1..Len(base) : p[i] = base[i]

\* mutant: every path is taken to be there
Exists_Always(f, p) == TRUE

\* Path::exists
Exists(f, p) == p \in Dirs \/ (p \in DOMAIN f /\ f[p].mtime # 0)

\* Path::is_file
IsFile(f, p) == p \in DOMAIN f /\ f[p].mtime # 0

Range(s) == {s[i] : i \in 1..Len(s)}

(***************************************************************************)
(* The Producer and the cache entry.                                       *)
(***************************************************************************)
\* VideoHash::from_path_with_stats: deterministic in the file's bytes
Producer(f, p) ==
    IF f[p].content = "good"
    THEN [ok |-> TRUE,
          val |-> <<[src_path |-> p, bits |-> f[p].content],
                    [stats_of |-> f[p].content]>>]
    ELSE [ok |-> FALSE, err |-> [kind |-> "VideoLength", src_path |-> p]]

\* mutant: every failure is recorded as a processing failure
CacheEntryFrom_LoseError(x) ==
    IF x.ok
    THEN [ok |-> TRUE, val |-> [hash |-> x.val[1], stats |-> x.val[2]]]
    ELSE [ok |-> FALSE,
          err |-> [kind |-> "VideoProcessing", src_path |-> x.err.src_path]]

\* impl From<Result<(VideoHash, VideoStats), HashCreationErrorKind>> for CacheEntry
CacheEntryFrom(x) ==
    IF x.ok
    THEN [ok |-> TRUE, val |-> [hash |-> x.val[1], stats |-> x.val[2]]]
    ELSE [ok |-> FALSE, err |-> x.err]

\* GenericCacheIf::load
load(f, p) == CacheEntryFrom(Producer(f, p))

(***************************************************************************)
(* The Store: ProcessingFsCache<GenericCacheIf>.  An entry carries the     *)
(* file's modification time as it was when the value was made.             *)
(***************************************************************************)
NoEntry == [present |-> FALSE]

StoreEntry(mtime, value) == [present |-> TRUE, mtime |-> mtime, value |-> value]

\* the Store's keys
Keys(st) == {p \in Files : st[p].present}

\* mutant: every entry is stale
IsStale_Always(st, f, p) == TRUE

\* an entry is stale when it is absent or was made at another mtime
IsStale(st, f, p) == ~st[p].present \/ st[p].mtime # f[p].mtime

\* the autosave a write or delete of the Store ends with once
\* cache_save_threshold operations have been counted: save_failed says that
\* the save was due and met an I/O error, which fails the operation that
\* triggered it
Autosave(mutated, save_failed) == [failed |-> mutated /\ save_failed]

CacheFileIo == [kind |-> "CacheFileIo"]
KeyMissing(p) == [kind |-> "KeyMissing", path |-> p]

\* mutant: the entry is kept
Evict_Keep(st, p) == st

\* the Store without the entry of p
Evict(st, p) == [st EXCEPT ![p] = NoEntry]

\* ProcessingFsCache::fetch_update: evict, serve from the cache, or produce
StoreFetchUpdate(st, f, p, save_failed) ==
    LET step ==
            IF ~Exists(f, p)
            THEN [store |-> Evict(st, p),
                  out |-> [some |-> FALSE],
                  produced |-> FALSE,
                  mutated |-> st[p].present]
            ELSE IF ~IsStale(st, f, p)
                 THEN [store |-> st,
                       out |-> [some |-> TRUE, entry |-> st[p].value],
                       produced |-> FALSE,
                       mutated |-> FALSE]
                 ELSE LET e == load(f, p)
                      IN  [store |-> [st EXCEPT ![p] = StoreEntry(f[p].mtime, e)],
                           out |-> [some |-> TRUE, entry |-> e],
                           produced |-> TRUE,
                           mutated |-> TRUE]
        saved == Autosave(step.mutated, save_failed)
    IN  [store |-> step.store,
         produced |-> step.produced,
         result |-> IF saved.failed
                    THEN [tag |-> "Err", err |-> CacheFileIo]
                    ELSE [tag |-> "Ok", opt |-> step.out]]

\* ProcessingFsCache::fetch: the entry of a key, without visiting the file
StoreFetch(st, p) ==
    IF st[p].present
    THEN [tag |-> "Ok", entry |-> st[p].value]
    ELSE [tag |-> "Err", err |-> KeyMissing(p)]

(***************************************************************************)
(* VideoHashFilesystemCache.                                               *)
(***************************************************************************)
\* VdfCacheError::from, for each of its two sources
CreateHashError(e) == [variant |-> "CreateHashError", src |-> e]
CacheErrror(e) == [variant |-> "CacheErrror", src |-> e]

\* fetch_entry
fetch_entry(st, p) ==
    LET r == StoreFetch(st, p)
    IN  IF r.tag = "Ok" THEN r ELSE [tag |-> "Err", err |-> CacheErrror(r.err)]

\* mutant: the stats of the entry are handed out, as fetch_stats does
fetch_StatsForHash(st, p) ==
    LET r == fetch_entry(st, p)
    IN  IF r.tag = "Err"
        THEN r
        ELSE IF r.entry.ok
             THEN [tag |-> "Ok", hash |-> r.entry.val.stats]
             ELSE [tag |-> "Err", err |-> CreateHashError(r.entry.err)]

\* fetch
fetch(st, p) ==
    LET r == fetch_entry(st, p)
    IN  IF r.tag = "Err"
        THEN r
        ELSE IF r.entry.ok
             THEN [tag |-> "Ok", hash |-> r.entry.val.hash]
             ELSE [tag |-> "Err", err |-> CreateHashError(r.entry.err)]

\* mutant: the keys are not filtered by fetch
all_cached_paths_AllKeys(st) == Keys(st)

\* all_cached_paths (a Vec in no particular order: its set of elements)
all_cached_paths(st) == {src_path \in Keys(st) : fetch(st, src_path).tag = "Ok"}

\* mutant: a cached failure is returned as no entry
fetch_update_match_DropFailure(result) ==
    IF result.tag = "Err"
    THEN [tag |-> "Err", err |-> CacheErrror(result.err)]
    ELSE IF ~result.opt.some
         THEN [tag |-> "Ok", some |-> FALSE]
         ELSE IF result.opt.entry.ok
              THEN [tag |-> "Ok", some |-> TRUE,
                    val |-> [ok |-> TRUE, hash |-> result.opt.entry.val.hash]]
              ELSE [tag |-> "Ok", some |-> FALSE]

\* the match of fetch_update on what the Store returned
fetch_update_match(result) ==
    IF result.tag = "Err"
    THEN [tag |-> "Err", err |-> CacheErrror(result.err)]
    ELSE IF ~result.opt.some
         THEN [tag |-> "Ok", some |-> FALSE]
         ELSE IF result.opt.entry.ok
              THEN [tag |-> "Ok", some |-> TRUE,
                    val |-> [ok |-> TRUE, hash |-> result.opt.entry.val.hash]]
              ELSE [tag |-> "Ok", some |-> TRUE,
                    val |-> [ok |-> FALSE, err |-> result.opt.entry.err]]

\* fetch_update: the new Store, whether the Producer ran,
\* and the value returned
fetch_update(st, f, p, save_failed) ==
    LET r == StoreFetchUpdate(st, f, p, save_failed)
    IN  [store |-> r.store,
         produced |-> r.produced,
         val |-> fetch_update_match(r.result)]

(***************************************************************************)
(* FileProjection.                                                         *)
(***************************************************************************)
\* OsStr::eq_ignore_ascii_case, through the lower-case form of each side
ToLower(ext) ==
    CASE ext = "MP4" -> "mp4"
      [] ext = "TXT" -> "txt"
      [] OTHER -> ext

\* Path::extension().unwrap_or_default()
Extension(p) == IF Len(p) = 0 THEN "" ELSE p[Len(p)].ext

\* mutant: only a path that is both a src path and an excl path is refused
src_excluded_SamePath(src_path, excl_path) == src_path = excl_path

\* mutant: the test is made the other way round
src_excluded_Reversed(src_path, excl_path) == StartsWith(excl_path, src_path)

\* the test FileProjection::new makes on each excl path and src path
src_excluded(src_path, excl_path) == StartsWith(src_path, excl_path)

\* FileProjection::new: the first excl path, and for it the first src path,
\* with the src path under the excl path, is reported
new(src_paths, excl_paths, excl_exts) ==
    LET Hit(i, j) == src_excluded(src_paths[j], excl_paths[i])
        HitOf(i) == \E j \in 1..Len(src_paths) : Hit(i, j)
    IN  IF \E i \in 1..Len(excl_paths) : HitOf(i)
        THEN LET i == CHOOSE i \in 1..Len(excl_paths) :
                          HitOf(i) /\ \A k \in 1..(i - 1) : ~HitOf(k)
                 j == CHOOSE j \in 1..Len(src_paths) :
                          Hit(i, j) /\ \A k \in 1..(j - 1) : ~Hit(i, k)
             IN  [tag |-> "Err",
                  err |-> [kind |-> "SrcPathExcluded",
                           src_path |-> src_paths[j],
                           excl_path |-> excl_paths[i]]]
        ELSE [tag |-> "Ok",
              val |-> [src_paths |-> src_paths,
                       excl_paths |-> excl_paths,
                       projected_files |-> {},
                       state |-> "Unprojected",
                       excl_exts |-> excl_exts]]

raw_includes(prj, p) ==
    \E i \in 1..Len(prj.src_paths) : StartsWith(p, prj.src_paths[i])

raw_excludes(prj, p) ==
    \E i \in 1..Len(prj.excl_paths) : StartsWith(p, prj.excl_paths[i])

\* mutant: the excl paths are not consulted
contains_IgnoreExcl(prj, src_path) == raw_includes(prj, src_path)

contains(prj, src_path) == raw_includes(prj, src_path) /\ ~raw_excludes(prj, src_path)

\* mutant: the extensions are compared as they are written
has_ignore_ext_CaseSensitive(prj, src_path) ==
    \E i \in 1..Len(prj.excl_exts) : Extension(src_path) = prj.excl_exts[i]

has_ignore_ext(prj, src_path) ==
    \E i \in 1..Len(prj.excl_exts) :
        ToLower(Extension(src_path)) = ToLower(prj.excl_exts[i])

\* WalkDir::new(root).into_iter().filter_entry(keep): the entries at and
\* under root that exist, reached through entries that all pass the filter
Walk(prj, f, root) ==
    {n \in Dirs \cup DOMAIN f :
        /\ Exists(f, n)
        /\ StartsWith(n, root)
        /\ \A k \in Len(root)..Len(n) :
              LET entry == SubSeq(n, 1, k)
              IN  contains(prj, entry) /\ ~has_ignore_ext(prj, entry)}

Panic == [tag |-> "Panic"]
\* a call that has not returned yet
Running == [tag |-> "Running"]

\* project_using_fs on an Unprojected projection: the two existence checks,
\* then the walk
project_unprojected(prj, f) ==
    IF \E i \in 1..Len(prj.src_paths) : ~Exists(f, prj.src_paths[i])
    THEN LET i == CHOOSE i \in 1..Len(prj.src_paths) :
                      /\ ~Exists(f, prj.src_paths[i])
                      /\ \A k \in 1..(i - 1) : Exists(f, prj.src_paths[k])
         IN  [proj |-> prj,
              val |-> [tag |-> "Err",
                       err |-> [kind |-> "PathNotFound",
                                path |-> prj.src_paths[i]]]]
    ELSE IF \E i \in 1..Len(prj.excl_paths) : ~Exists(f, prj.excl_paths[i])
    THEN LET i == CHOOSE i \in 1..Len(prj.excl_paths) :
                      /\ ~Exists(f, prj.excl_paths[i])
                      /\ \A k \in 1..(i - 1) : Exists(f, prj.excl_paths[k])
         IN  [proj |-> prj,
              val |-> [tag |-> "Err",
                       err |-> [kind |-> "ExclPathNotFound",
                                path |-> prj.excl_paths[i]]]]
    ELSE LET enumerated_paths ==
                 {n \in UNION {Walk(prj, f, prj.src_paths[i]) :
                                  i \in 1..Len(prj.src_paths)} :
                     IsFile(f, n)}
         IN  [proj |-> [prj EXCEPT !.projected_files = enumerated_paths,
                                  !.state = "ProjectedUsingFs"],
              val |-> [tag |-> "Ok", errs |-> <<>>]]

\* mutant: a projection made from the filesystem is made again
project_using_fs_Rewalk(prj, f) ==
    CASE prj.state = "ProjectedUsingList" -> [proj |-> prj, val |-> Panic]
      [] OTHER -> project_unprojected(prj, f)

\* project_using_fs: the projection afterwards and the value returned
project_using_fs(prj, f) ==
    CASE prj.state = "ProjectedUsingList" -> [proj |-> prj, val |-> Panic]
      [] prj.state = "ProjectedUsingFs" ->
            [proj |-> prj, val |-> [tag |-> "Ok", errs |-> <<>>]]
      [] prj.state = "Unprojected" -> project_unprojected(prj, f)

\* mutant: the candidates are filtered by extension as the walk's entries are
project_using_list_ExtFiltered(prj, list) ==
    CASE prj.state = "ProjectedUsingFs" -> [proj |-> prj, val |-> Panic]
      [] prj.state = "ProjectedUsingList" -> [proj |-> prj, val |-> [tag |-> "Ok"]]
      [] prj.state = "Unprojected" ->
            [proj |-> [prj EXCEPT
                          !.projected_files =
                              {x \in Range(list) :
                                  contains(prj, x) /\ ~has_ignore_ext(prj, x)},
                          !.state = "ProjectedUsingList"],
             val |-> [tag |-> "Ok"]]

\* mutant: the candidates are taken as they come
project_using_list_NoFilter(prj, list) ==
    CASE prj.state = "ProjectedUsingFs" -> [proj |-> prj, val |-> Panic]
      [] prj.state = "ProjectedUsingList" -> [proj |-> prj, val |-> [tag |-> "Ok"]]
      [] prj.state = "Unprojected" ->
            [proj |-> [prj EXCEPT !.projected_files = Range(list),
                                 !.state = "ProjectedUsingList"],
             val |-> [tag |-> "Ok"]]

\* project_using_list
project_using_list(prj, list) ==
    CASE prj.state = "ProjectedUsingFs" -> [proj |-> prj, val |-> Panic]
      [] prj.state = "ProjectedUsingList" -> [proj |-> prj, val |-> [tag |-> "Ok"]]
      [] prj.state = "Unprojected" ->
            [proj |-> [prj EXCEPT
                          !.projected_files = {x \in Range(list) : contains(prj, x)},
                          !.state = "ProjectedUsingList"],
             val |-> [tag |-> "Ok"]]

\* mutant: the files are handed out before any projection
projected_files_NoPanic(prj) == [tag |-> "Ok", files |-> prj.projected_files]

\* projected_files
projected_files(prj) ==
    IF prj.state = "Unprojected"
    THEN Panic
    ELSE [tag |-> "Ok", files |-> prj.projected_files]

(***************************************************************************)
(* update_using_fs.                                                        *)
(***************************************************************************)
\* mutant: the chain is not collected into a HashSet
all_update_paths_NoDedup(st, prj) ==
    [p \in Files |->
        (IF p \in all_cached_paths(st) /\ contains(prj, p) THEN 1 ELSE 0)
        + (IF p \in prj.projected_files THEN 1 ELSE 0)]

\* mutant: the cached paths are not chained in
all_update_paths_ProjectedOnly(st, prj) ==
    [p \in Files |-> IF p \in prj.projected_files THEN 1 ELSE 0]

\* mutant: the projected files are not chained in
all_update_paths_CachedOnly(st, prj) ==
    [p \in Files |->
        IF p \in all_cached_paths(st) /\ contains(prj, p) THEN 1 ELSE 0]

\* mutant: the cached paths are not filtered by the projection
all_update_paths_NoContains(st, prj) ==
    [p \in Files |->
        IF p \in all_cached_paths(st) \/ p \in prj.projected_files THEN 1 ELSE 0]

\* the paths update_using_fs visits, each with the number of times it is
\* visited: the chain of the cached paths inside the projection and the
\* projected files, collected into a HashSet
all_update_paths(st, prj) ==
    LET cached_paths_in_projection ==
            {src_path \in all_cached_paths(st) : contains(prj, src_path)}
        chained(p) ==
            (IF p \in cached_paths_in_projection THEN 1 ELSE 0)
            + (IF p \in prj.projected_files THEN 1 ELSE 0)
    IN  [p \in Files |-> IF chained(p) > 0 THEN 1 ELSE 0]

\* mutant: an error of the Store is not collected
update_filter_map_DropStoreError(val) ==
    IF val.tag = "Err"
    THEN [some |-> FALSE]
    ELSE IF val.some /\ ~val.val.ok
         THEN [some |-> TRUE, err |-> CreateHashError(val.val.err)]
         ELSE [some |-> FALSE]

\* the filter_map over the result of each fetch_update
update_filter_map(val) ==
    IF val.tag = "Err"
    THEN [some |-> TRUE, err |-> val.err]
    ELSE IF val.some /\ ~val.val.ok
         THEN [some |-> TRUE, err |-> CreateHashError(val.val.err)]
         ELSE [some |-> FALSE]

(***************************************************************************)
(* The state after construction.                                           *)
(***************************************************************************)
NoProjection == [state |-> "None"]
NoUpdate == [phase |-> "idle"]
NoRet == [op |-> "none"]
\* fetch_update has not been called on the path by the running update
NotCalled == [tag |-> "NotCalled"]

\* the threads that call fetch_update at the same time: the callers of the
\* cache, or the workers of a parallel update_using_fs
Threads == {"t1", "t2"}

Idle == [pc |-> "idle"]
\* no call in flight; runs counts, for each path, the Producer's runs made
\* by calls in flight since the file last changed
NoCallsOn(S) == [call |-> [t \in Threads |-> Idle], runs |-> [p \in S |-> 0]]
NoCalls == NoCallsOn(Files)

AllIdle(c) == \A t \in Threads : c.call[t] = Idle

Init ==
    /\ fs \in [Files -> FileStates]
    /\ store = [p \in Files |-> NoEntry]
    /\ proj = NoProjection
    /\ upd = NoUpdate
    /\ ret = NoRet
    /\ synced = {}
    /\ conc = NoCalls

\* a call that has returned is over once anything else happens
Settle(u) == IF u.phase = "done" THEN NoUpdate ELSE u

\* the state after construction, over the larger tree of the projections
ProjInit ==
    /\ fs \in [ProjFiles -> {NoFile, [mtime |-> 1, content |-> "good"]}]
    /\ store = [p \in Files |-> NoEntry]
    /\ proj = NoProjection
    /\ upd = NoUpdate
    /\ ret = NoRet
    /\ synced = {}
    /\ conc = NoCallsOn(ProjFiles)

(***************************************************************************)
(* The environment: files are written, touched and removed, between the    *)
(* calls of the caller.                                                    *)
(***************************************************************************)
FsWrite(p, m, c) ==
    /\ upd.phase # "running"
    /\ AllIdle(conc)
    /\ [mtime |-> m, content |-> c] # fs[p]
    /\ fs' = [fs EXCEPT ![p] = [mtime |-> m, content |-> c]]
    /\ upd' = Settle(upd)
    /\ synced' = synced \ {p}
    /\ conc' = [conc EXCEPT !.runs[p] = 0]
    /\ UNCHANGED <<store, proj, ret>>

FsRemove(p) ==
    /\ upd.phase # "running"
    /\ AllIdle(conc)
    /\ fs[p] # NoFile
    /\ fs' = [fs EXCEPT ![p] = NoFile]
    /\ upd' = Settle(upd)
    /\ synced' = synced \ {p}
    /\ conc' = [conc EXCEPT !.runs[p] = 0]
    /\ UNCHANGED <<store, proj, ret>>

(***************************************************************************)
(* The calls on the cache.                                                 *)
(***************************************************************************)
FetchUpdate(p, save_failed) ==
    /\ upd.phase # "running"
    /\ LET r == fetch_update(store, fs, p, save_failed)
       IN  /\ store' = r.store
           /\ ret' = [op |-> "fetch_update", path |-> p, mtime |-> fs[p].mtime,
                      had |-> store[p].present, produced |-> r.produced,
                      val |-> r.val]
    /\ upd' = Settle(upd)
    /\ synced' = synced \cup {p}
    /\ UNCHANGED <<fs, proj, conc>>

Fetch(p) ==
    /\ upd.phase # "running"
    /\ ret' = [op |-> "fetch", path |-> p, val |-> fetch(store, p)]
    /\ upd' = Settle(upd)
    /\ UNCHANGED <<fs, store, proj, synced, conc>>

AllCachedPaths ==
    /\ upd.phase # "running"
    /\ ret' = [op |-> "all_cached_paths",
               val |-> [tag |-> "Ok", paths |-> all_cached_paths(store)]]
    /\ upd' = Settle(upd)
    /\ UNCHANGED <<fs, store, proj, synced, conc>>

Save(save_failed) ==
    /\ upd.phase # "running"
    /\ ret' = [op |-> "save",
               val |-> IF save_failed
                       THEN [tag |-> "Err", err |-> CacheErrror(CacheFileIo)]
                       ELSE [tag |-> "Ok"]]
    /\ upd' = Settle(upd)
    /\ UNCHANGED <<fs, store, proj, synced, conc>>

(***************************************************************************)
(* The calls on the projection.                                            *)
(***************************************************************************)
\* the arguments the caller constructs projections from, and the lists it
\* projects from
ProjectionInputs ==
    {<<<<V>>, <<>>, <<>>>>, <<<<V>>, <<VX>>, <<>>>>, <<<<VX>>, <<V>>, <<>>>>}
ListInputs == {<<VA, VXB>>}

New(src_paths, excl_paths, excl_exts) ==
    /\ upd.phase # "running"
    /\ LET r == new(src_paths, excl_paths, excl_exts)
       IN  /\ proj' = (IF r.tag = "Ok" THEN r.val ELSE proj)
           /\ ret' = [op |-> "new",
                      args |-> <<src_paths, excl_paths, excl_exts>>, val |-> r]
    /\ upd' = Settle(upd)
    /\ UNCHANGED <<fs, store, synced, conc>>

ProjectUsingFs ==
    /\ upd.phase # "running"
    /\ proj # NoProjection
    /\ LET r == project_using_fs(proj, fs)
       IN  /\ proj' = r.proj
           /\ ret' = [op |-> "project_using_fs", was |-> proj.state,
                      val |-> r.val]
    /\ upd' = Settle(upd)
    /\ UNCHANGED <<fs, store, synced, conc>>

ProjectUsingList(list) ==
    /\ upd.phase # "running"
    /\ proj # NoProjection
    /\ LET r == project_using_list(proj, list)
       IN  /\ proj' = r.proj
           /\ ret' = [op |-> "project_using_list", was |-> proj.state,
                      list |-> list, val |-> r.val]
    /\ upd' = Settle(upd)
    /\ UNCHANGED <<fs, store, synced, conc>>

\* the caller reads the projected files
ProjectedFiles ==
    /\ upd.phase # "running"
    /\ proj # NoProjection
    /\ ret' = [op |-> "projected_files", was |-> proj.state,
               val |-> projected_files(proj)]
    /\ upd' = Settle(upd)
    /\ UNCHANGED <<fs, store, proj, synced, conc>>

\* the caller asks whether the projection contains a path
Contains(src_path) ==
    /\ upd.phase # "running"
    /\ proj # NoProjection
    /\ ret' = [op |-> "contains", path |-> src_path,
               val |-> [tag |-> "Ok", is |-> contains(proj, src_path)]]
    /\ upd' = Settle(upd)
    /\ UNCHANGED <<fs, store, proj, synced, conc>>

\* the arguments and the lists of the callers that use projections alone
LifecycleInputs ==
    {<<<<V>>, <<>>, <<>>>>,
     <<<<V>>, <<>>, <<"txt">>>>,
     <<<<V>>, <<VX>>, <<".txt">>>>,
     <<<<VA, VX>>, <<VXB>>, <<>>>>,
     <<<<V>>, <<VY>>, <<>>>>}
LifecycleLists == {<<VA, VN, VXB>>, <<VB>>}
ContainsInputs == {<<>>, V, VA, VN, VX, VXB, VTC, VY}

SrcLists == {<<V>>, <<VX>>, <<V, VXB>>, <<V, VX>>, <<VX, V>>}
ExclLists == {<<>>, <<V>>, <<VX>>, <<VY>>, <<VY, VX>>, <<VX, VY>>}

(***************************************************************************)
(* update_using_fs, one fetch_update at a time, in the order the HashSet   *)
(* yields the paths.  upd keeps, besides the call's own todo and errs_ret, *)
(* the Store and the synced files as the call found them, and how often    *)
(* the call visited each path and ran the Producer on it, and what         *)
(* fetch_update returned for it, and whether two of its fetch_update calls *)
(* were inside the Store at the same time.                                 *)
(***************************************************************************)
UpdateBegin ==
    /\ upd.phase # "running"
    /\ proj # NoProjection
    /\ IF projected_files(proj) = Panic
       THEN /\ ret' = [op |-> "update_using_fs", val |-> Panic]
            /\ upd' = NoUpdate
       ELSE /\ upd' = [phase |-> "running",
                       todo |-> all_update_paths(store, proj),
                       errs_ret |-> <<>>,
                       store0 |-> store,
                       calls |-> [p \in Files |-> 0],
                       produced |-> [p \in Files |-> 0],
                       vals |-> [p \in Files |-> NotCalled],
                       overlapped |-> FALSE,
                       synced0 |-> synced]
            /\ ret' = [op |-> "update_using_fs", val |-> Running]
    /\ UNCHANGED <<fs, store, proj, synced, conc>>

UpdateStep(path, save_failed) ==
    /\ upd.phase = "running"
    /\ upd.todo[path] > 0
    /\ LET r == fetch_update(store, fs, path, save_failed)
           e == update_filter_map(r.val)
       IN  /\ store' = r.store
           /\ upd' = [upd EXCEPT
                         !.todo[path] = @ - 1,
                         !.errs_ret = IF e.some THEN Append(@, e.err) ELSE @,
                         !.calls[path] = @ + 1,
                         !.vals[path] = r.val,
                         !.produced[path] = IF r.produced THEN @ + 1 ELSE @]
    /\ synced' = synced \cup {path}
    /\ UNCHANGED <<fs, proj, ret, conc>>

UpdateEnd ==
    /\ upd.phase = "running"
    /\ AllIdle(conc)
    /\ \A p \in Files : upd.todo[p] = 0
    /\ upd' = [upd EXCEPT !.phase = "done"]
    /\ ret' = [op |-> "update_using_fs",
               val |-> [tag |-> "Ok", errs |-> upd.errs_ret]]
    /\ UNCHANGED <<fs, store, proj, synced, conc>>

(***************************************************************************)
(* fetch_update calls in flight at the same time.  A call enters the Store *)
(* (which serializes the calls on a key), runs the Producer if the entry   *)
(* is stale, and writes and returns.                                       *)
(***************************************************************************)
\* mutant: the calls on a key are not serialized
KeyFree_NoLock(c, p) == TRUE

\* no other call is inside the Store on the key
KeyFree(c, p) ==
    \A t \in Threads :
        IF c.call[t].pc \in {"checked", "loaded"} THEN c.call[t].path # p ELSE TRUE

\* what fetch_update of the Store finds on entering
StoreCheck(st, f, p) ==
    IF ~Exists(f, p)
    THEN [decision |-> "evict"]
    ELSE IF ~IsStale(st, f, p)
         THEN [decision |-> "hit", entry |-> st[p].value]
         ELSE [decision |-> "produce"]

\* what fetch_update of the Store writes and returns on leaving
StoreFinish(st, call, save_failed) ==
    LET p == call.path
        step ==
            CASE call.check.decision = "evict" ->
                    [store |-> Evict(st, p),
                     out |-> [some |-> FALSE],
                     mutated |-> st[p].present]
              [] call.check.decision = "hit" ->
                    [store |-> st,
                     out |-> [some |-> TRUE, entry |-> call.check.entry],
                     mutated |-> FALSE]
              [] call.check.decision = "produce" ->
                    [store |-> [st EXCEPT ![p] = StoreEntry(call.mtime, call.entry)],
                     out |-> [some |-> TRUE, entry |-> call.entry],
                     mutated |-> TRUE]
        saved == Autosave(step.mutated, save_failed)
    IN  [store |-> step.store,
         result |-> IF saved.failed
                    THEN [tag |-> "Err", err |-> CacheFileIo]
                    ELSE [tag |-> "Ok", opt |-> step.out]]

\* thread t calls fetch_update on p
CallBegin(t, p, owner) ==
    /\ conc.call[t] = Idle
    /\ conc' = [conc EXCEPT
                    !.call[t] = [pc |-> "called", path |-> p, owner |-> owner]]

\* the call on thread t enters the Store
CallEnter(t) ==
    /\ conc.call[t].pc = "called"
    /\ KeyFree(conc, conc.call[t].path)
    /\ LET p == conc.call[t].path
       IN  conc' = [conc EXCEPT
                       !.call[t] = [pc |-> "checked", path |-> p,
                                    owner |-> @.owner,
                                    had |-> store[p].present,
                                    check |-> StoreCheck(store, fs, p)]]
    /\ UNCHANGED <<fs, store, proj, upd, ret, synced>>

\* the call on thread t has left the Store
CallEnd(t, save_failed) ==
    /\ \/ conc.call[t].pc = "loaded"
       \/ conc.call[t].pc = "checked" /\ conc.call[t].check.decision # "produce"
    /\ store' = StoreFinish(store, conc.call[t], save_failed).store
    /\ conc' = [conc EXCEPT !.call[t] = Idle]
    /\ synced' = synced \cup {conc.call[t].path}

\* the value fetch_update returns on thread t
CallVal(t, save_failed) ==
    fetch_update_match(StoreFinish(store, conc.call[t], save_failed).result)

\* a caller thread calls fetch_update
FetchUpdateBegin(t, p) ==
    /\ upd.phase # "running"
    /\ CallBegin(t, p, "caller")
    /\ upd' = Settle(upd)
    /\ UNCHANGED <<fs, store, proj, ret, synced>>

\* GenericCacheIf::load runs on thread t
CallLoad(t) ==
    /\ conc.call[t].pc = "checked"
    /\ conc.call[t].check.decision = "produce"
    /\ LET p == conc.call[t].path
       IN  /\ conc' = [conc EXCEPT
                          !.call[t] = [pc |-> "loaded", path |-> p,
                                       owner |-> @.owner, had |-> @.had,
                                       check |-> @.check,
                                       mtime |-> fs[p].mtime,
                                       entry |-> load(fs, p)],
                          !.runs[p] = @ + 1]
           /\ upd' = IF conc.call[t].owner = "worker"
                     THEN [upd EXCEPT !.produced[p] = @ + 1]
                     ELSE upd
    /\ UNCHANGED <<fs, store, proj, ret, synced>>

\* fetch_update returns to the caller thread
FetchUpdateReturn(t, save_failed) ==
    /\ conc.call[t].pc \in {"checked", "loaded"}
    /\ conc.call[t].owner = "caller"
    /\ CallEnd(t, save_failed)
    /\ ret' = [op |-> "fetch_update", path |-> conc.call[t].path,
               mtime |-> fs[conc.call[t].path].mtime,
               had |-> conc.call[t].had,
               produced |-> conc.call[t].pc = "loaded",
               val |-> CallVal(t, save_failed)]
    /\ UNCHANGED <<fs, proj, upd>>

(***************************************************************************)
(* update_using_fs with parallel_loading: the paths of the update set are  *)
(* handed to the workers of the pool, and each worker calls fetch_update.  *)
(***************************************************************************)
\* mutant: the parallel filter_map drops the errors of the Store
par_filter_map_DropStoreError(val) ==
    IF val.tag = "Err"
    THEN [some |-> FALSE]
    ELSE IF val.some /\ ~val.val.ok
         THEN [some |-> TRUE, err |-> CreateHashError(val.val.err)]
         ELSE [some |-> FALSE]

\* the filter_map over the result of each fetch_update, under par_iter
par_filter_map(val) ==
    IF val.tag = "Err"
    THEN [some |-> TRUE, err |-> val.err]
    ELSE IF val.some /\ ~val.val.ok
         THEN [some |-> TRUE, err |-> CreateHashError(val.val.err)]
         ELSE [some |-> FALSE]

WorkerBegin(t, path) ==
    /\ upd.phase = "running"
    /\ upd.todo[path] > 0
    /\ CallBegin(t, path, "worker")
    /\ upd' = [upd EXCEPT !.todo[path] = @ - 1]
    /\ UNCHANGED <<fs, store, proj, ret, synced>>

WorkerReturn(t, save_failed) ==
    /\ conc.call[t].pc \in {"checked", "loaded"}
    /\ conc.call[t].owner = "worker"
    /\ CallEnd(t, save_failed)
    /\ LET path == conc.call[t].path
           val == CallVal(t, save_failed)
           e == par_filter_map(val)
       IN  upd' = [upd EXCEPT
                      !.errs_ret = IF e.some THEN Append(@, e.err) ELSE @,
                      !.calls[path] = @ + 1,
                      !.vals[path] = val,
                      !.overlapped =
                          @ \/ \E u \in Threads \ {t} :
                                   conc.call[u].pc \in {"checked", "loaded"}]
    /\ UNCHANGED <<fs, proj, ret>>

(***************************************************************************)
(* The specifications.                                                     *)
(***************************************************************************)
\* a caller making single calls on the cache
Next ==
    \/ \E p \in Files, m \in 1..MaxMtime, c \in Contents : FsWrite(p, m, c)
    \/ \E p \in Files : FsRemove(p)
    \/ \E p \in Files, save_failed \in BOOLEAN : FetchUpdate(p, save_failed)
    \/ \E p \in Files : Fetch(p)
    \/ AllCachedPaths
    \/ \E save_failed \in BOOLEAN : Save(save_failed)

Spec == Init /\ [][Next]_vars

\* a caller updating the cache in bulk from projections
BulkNext ==
    \/ \E p \in Files, m \in 1..MaxMtime, c \in Contents : FsWrite(p, m, c)
    \/ \E p \in Files : FsRemove(p)
    \/ \E i \in ProjectionInputs : New(i[1], i[2], i[3])
    \/ ProjectUsingFs
    \/ \E list \in ListInputs : ProjectUsingList(list)
    \/ UpdateBegin
    \/ \E p \in Files, save_failed \in BOOLEAN : UpdateStep(p, save_failed)
    \/ UpdateEnd

BulkSpec == Init /\ [][BulkNext]_vars

\* a caller making single calls and bulk updates over the projection of V
MixedNext ==
    \/ \E p \in Files, m \in 1..MaxMtime, c \in Contents : FsWrite(p, m, c)
    \/ \E p \in Files : FsRemove(p)
    \/ \E p \in Files, save_failed \in BOOLEAN : FetchUpdate(p, save_failed)
    \/ New(<<V>>, <<>>, <<>>)
    \/ ProjectUsingFs
    \/ UpdateBegin
    \/ \E p \in Files, save_failed \in BOOLEAN : UpdateStep(p, save_failed)
    \/ UpdateEnd

MixedSpec == Init /\ [][MixedNext]_vars

\* callers on several threads making single calls
ConcNext ==
    \/ \E p \in Files, m \in 1..MaxMtime, c \in Contents : FsWrite(p, m, c)
    \/ \E p \in Files : FsRemove(p)
    \/ \E t \in Threads, p \in Files : FetchUpdateBegin(t, p)
    \/ \E t \in Threads : CallEnter(t)
    \/ \E t \in Threads : CallLoad(t)
    \/ \E t \in Threads, save_failed \in BOOLEAN : FetchUpdateReturn(t, save_failed)

ConcSpec == Init /\ [][ConcNext]_vars

\* a caller updating the cache in bulk, the paths processed by a worker pool
ParNext ==
    \/ \E p \in Files, m \in 1..MaxMtime, c \in Contents : FsWrite(p, m, c)
    \/ \E p \in Files : FsRemove(p)
    \/ New(<<V>>, <<>>, <<>>)
    \/ ProjectUsingFs
    \/ UpdateBegin
    \/ \E t \in Threads, p \in Files : WorkerBegin(t, p)
    \/ \E t \in Threads : CallEnter(t)
    \/ \E t \in Threads : CallLoad(t)
    \/ \E t \in Threads, save_failed \in BOOLEAN : WorkerReturn(t, save_failed)
    \/ UpdateEnd

ParSpec == Init /\ [][ParNext]_vars

\* a caller projecting from a filesystem that changes
ProjNext ==
    \/ \E p \in ProjFiles : FsWrite(p, 1, "good")
    \/ \E p \in ProjFiles : FsRemove(p)
    \/ \E i \in LifecycleInputs : New(i[1], i[2], i[3])
    \/ ProjectUsingFs
    \/ \E list \in LifecycleLists : ProjectUsingList(list)
    \/ ProjectedFiles
    \/ \E p \in ContainsInputs : Contains(p)

ProjSpec == ProjInit /\ [][ProjNext]_vars

\* a caller constructing projections
NewNext ==
    \/ \E s \in SrcLists, e \in ExclLists : New(s, e, <<>>)
    \/ ProjectUsingFs
    \/ \E list \in ListInputs : ProjectUsingList(list)

NewSpec == Init /\ [][NewNext]_vars

(***************************************************************************)
(* What the properties below are stated in.                                *)
(***************************************************************************)
\* the keys of a Store whose record is a Success
SuccessKeys(st) == {p \in Files : st[p].present /\ st[p].value.ok}

\* a step that is a fetch_update call on p
FetchUpdateOf(p) == \E save_failed \in BOOLEAN : FetchUpdate(p, save_failed)

\* a step of a running update_using_fs that visits p
UpdateStepOf(p) == \E save_failed \in BOOLEAN : UpdateStep(p, save_failed)

\* the entry is absent, or was recorded at another mtime than the file's
StaleEntry(p) == ~store[p].present \/ store[p].mtime # fs[p].mtime

\* the Producer's outcome on the file of p, as the record kept of it
OutcomeRecord(p) ==
    LET o == Producer(fs, p)
    IN  IF o.ok
        THEN [ok |-> TRUE, val |-> [hash |-> o.val[1], stats |-> o.val[2]]]
        ELSE [ok |-> FALSE, err |-> o.err]

\* Ok(Some(outcome)) for the record of an outcome
OkSome(record) ==
    [tag |-> "Ok", some |-> TRUE,
     val |-> IF record.ok
             THEN [ok |-> TRUE, hash |-> record.val.hash]
             ELSE [ok |-> FALSE, err |-> record.err]]

OkNone == [tag |-> "Ok", some |-> FALSE]

\* what C1 says of a fetch_update call on an existing path p
C1_Post(p) ==
    /\ ret'.produced <=> StaleEntry(p)
    /\ StaleEntry(p) =>
          /\ store'[p] = [present |-> TRUE, mtime |-> fs[p].mtime,
                          value |-> OutcomeRecord(p)]
          /\ ret'.val = OkSome(OutcomeRecord(p))

C2_SecondCall(p) ==
    /\ FetchUpdateOf(p)
    /\ ret.op = "fetch_update" /\ ret.path = p
    /\ ret.mtime # 0 /\ fs[p].mtime = ret.mtime

C3_Post(p) ==
    /\ ~store'[p].present
    /\ ret'.val = OkNone
    /\ ~ret'.produced
    /\ p \notin all_cached_paths(store')

C9_ListsSuccesses ==
    [][AllCachedPaths =>
          /\ ret'.val = [tag |-> "Ok", paths |-> SuccessKeys(store)]
          /\ store' = store]_vars

\* C9 witness: all_cached_paths returned a key and left out another key,
\* which holds a Failure and is still in the Store.
C9_Witness ==
    /\ ret.op = "all_cached_paths"
    /\ \E p, q \in Files :
          /\ p \in ret.val.paths
          /\ q \notin ret.val.paths
          /\ store[q].present /\ ~store[q].value.ok

(***************************************************************************)
(* Negative caching, over single calls and bulk updates (MixedSpec).       *)
(***************************************************************************)
\* the Store holds a Failure for p, recorded at the mtime the file has
NegativeHit(p) ==
    /\ store[p].present /\ ~store[p].value.ok
    /\ fs[p].mtime = store[p].mtime

\* the record of the Producer's failure on the file of p
FailureRecord(p) ==
    [present |-> TRUE, mtime |-> fs[p].mtime,
     value |-> [ok |-> FALSE, err |-> Producer(fs, p).err]]

\* C4: a failure of the Producer is stored as the path's record; every later
\* fetch_update on the path, made singly or by update_using_fs, while the
\* file has the mtime recorded, does not invoke the Producer, returns the
\* stored failure and leaves the record; and no other call changes the
\* record of the path.
C4_NegativeCaching ==
    [][\A p \in Files :
          /\ FetchUpdateOf(p) =>
                /\ (ret'.produced /\ ~Producer(fs, p).ok)
                      => store'[p] = FailureRecord(p)
                /\ NegativeHit(p) =>
                      /\ ~ret'.produced
                      /\ ret'.val = [tag |-> "Ok", some |-> TRUE,
                                     val |-> [ok |-> FALSE,
                                              err |-> store[p].value.err]]
                      /\ store'[p] = store[p]
          /\ UpdateStepOf(p) =>
                /\ (upd'.produced[p] > upd.produced[p] /\ ~Producer(fs, p).ok)
                      => store'[p] = FailureRecord(p)
                /\ NegativeHit(p) =>
                      /\ upd'.produced[p] = upd.produced[p]
                      /\ upd'.errs_ret =
                            Append(upd.errs_ret,
                                   [variant |-> "CreateHashError",
                                    src |-> store[p].value.err])
                      /\ store'[p] = store[p]
          /\ store'[p] # store[p] => FetchUpdateOf(p) \/ UpdateStepOf(p)]_vars

\* C4 witness: an update_using_fs has returned the stored failure of a path
\* without running the Producer on it, after a single fetch_update had
\* stored that failure.
C4_Witness ==
    /\ upd.phase = "done"
    /\ \E p \in Files :
          /\ upd.store0[p].present /\ ~upd.store0[p].value.ok
          /\ upd.calls[p] = 1 /\ upd.produced[p] = 0
          /\ store[p] = upd.store0[p]
          /\ fs[p].mtime = store[p].mtime
          /\ fs[p].content = "good"
          /\ ret.val.tag = "Ok" /\ Len(ret.val.errs) = 1

(***************************************************************************)
(* Bulk updates (BulkSpec).  At the return of update_using_fs upd.phase is *)
(* "done", and the filesystem is as it was during the call.                *)
(***************************************************************************)
\* the update set of the call: the cached paths, as the call found the
\* Store, that the projection contains, and the projected files
UpdateSet0 ==
    {p \in Files : /\ upd.store0[p].present /\ upd.store0[p].value.ok
                   /\ contains(proj, p)}
    \cup proj.projected_files

InUpdate == upd.phase \in {"running", "done"}
AtReturn == upd.phase = "done"

\* C5: update_using_fs calls fetch_update for exactly the paths of the
\* update set, each once, also a path both cached and projected; a path
\* outside the set is not visited and its Store entry does not change.
C5_ExactlyUpdateSet ==
    InUpdate =>
        \A p \in Files :
            /\ p \in UpdateSet0 => upd.calls[p] <= 1
            /\ (p \in UpdateSet0 /\ AtReturn) => upd.calls[p] = 1
            /\ p \notin UpdateSet0 =>
                  upd.calls[p] = 0 /\ store[p] = upd.store0[p]

\* C5 witness: the call returned having visited once a path that was both
\* cached and projected, with a changed file whose entry is outside the set.
C5_Witness ==
    /\ AtReturn
    /\ \E p, q \in Files :
          /\ upd.store0[p].present /\ upd.store0[p].value.ok
          /\ contains(proj, p) /\ p \in proj.projected_files
          /\ upd.calls[p] = 1
          /\ q \notin UpdateSet0
          /\ store[q].present /\ store[q].mtime # fs[q].mtime

\* C6 as stated: every path that had a Store entry before the call, is
\* contained by the projection and is no longer on disk has no Store entry
\* when update_using_fs returns.
C6_AsStated ==
    AtReturn =>
        \A p \in Files :
            (upd.store0[p].present /\ contains(proj, p) /\ fs[p].mtime = 0)
                => ~store[p].present

\* C7: a path that was cached, is contained by the projection and is no
\* longer on disk is not in all_cached_paths() when update_using_fs returns.
C7_DeletedNotListed ==
    AtReturn =>
        \A p \in Files :
            (upd.store0[p].present /\ contains(proj, p) /\ fs[p].mtime = 0)
                => p \notin all_cached_paths(store)

\* C7 witness: a file with a Success in the Store was deleted, the
\* projection was made from the filesystem after that, and the call evicted
\* the path.
C7_Witness ==
    /\ AtReturn
    /\ proj.state = "ProjectedUsingFs"
    /\ \E p \in Files :
          /\ upd.store0[p].present /\ upd.store0[p].value.ok
          /\ contains(proj, p) /\ fs[p].mtime = 0
          /\ p \notin proj.projected_files
          /\ ~store[p].present

\* C8: from an empty cache, when update_using_fs returns all_cached_paths()
\* is exactly the projected paths on which the Producer succeeded.
C8_ListsProduced ==
    (AtReturn /\ \A p \in Files : ~upd.store0[p].present) =>
        all_cached_paths(store) =
            {p \in proj.projected_files : fs[p].mtime # 0 /\ Producer(fs, p).ok}

\* C8 witness: the call ran from an empty cache over a projection of two
\* files found on the filesystem; one is listed, the other has a Failure.
C8_Witness ==
    /\ AtReturn
    /\ \A p \in Files : ~upd.store0[p].present
    /\ proj.state = "ProjectedUsingFs"
    /\ proj.projected_files = Files
    /\ \E p, q \in Files :
          /\ p \in all_cached_paths(store)
          /\ store[q].present /\ ~store[q].value.ok

\* C10: when no file of the update set has changed since fetch_update last
\* visited it, update_using_fs runs the Producer on no path and leaves the
\* Store as it found it.
C10_RerunIdle ==
    (AtReturn /\ UpdateSet0 \subseteq upd.synced0) =>
        /\ \A p \in Files : upd.produced[p] = 0
        /\ store = upd.store0

\* C10 witness: such a call returned after visiting a cached path, while a
\* file outside the update set had changed.
C10_Witness ==
    /\ AtReturn
    /\ UpdateSet0 \subseteq upd.synced0
    /\ \E p, q \in Files :
          /\ p \in UpdateSet0 /\ upd.store0[p].present /\ upd.calls[p] = 1
          /\ q \notin UpdateSet0 /\ q \notin upd.synced0
          /\ store[q].present /\ store[q].value.ok

(***************************************************************************)
(* The errors a bulk update returns (BulkSpec).                            *)
(***************************************************************************)
\* the fetch_update of the call on p yielded a failure of the Producer
ProducerFailed(p) ==
    upd.vals[p].tag = "Ok" /\ upd.vals[p].some /\ ~upd.vals[p].val.ok

\* the fetch_update of the call on p yielded an error of the Store
StoreFailed(p) == upd.vals[p].tag = "Err"

\* the error the caller is owed for p
ErrorOwed(p) ==
    IF StoreFailed(p)
    THEN upd.vals[p].err
    ELSE [variant |-> "CreateHashError", src |-> upd.vals[p].val.err]

RECURSIVE SeqRun(_, _, _)
SeqRun(st, errs, order) ==
    IF order = <<>>
    THEN [store |-> st, errs |-> errs]
    ELSE LET p == Head(order)
             r == fetch_update(st, fs, p, StoreFailed(p))
             e == update_filter_map(r.val)
         IN  SeqRun(r.store,
                    IF e.some THEN Append(errs, e.err) ELSE errs,
                    Tail(order))

\* the orders a set of paths can be processed in
Orders(S) ==
    {o \in [1..Cardinality(S) -> S] : \A i, j \in DOMAIN o : o[i] = o[j] => i = j}

\* a list as a multiset: each element with the number of its occurrences
BagOf(list) ==
    [x \in Range(list) |-> Cardinality({i \in 1..Len(list) : list[i] = x})]

\* C13: when update_using_fs with the worker pool returns, whatever the
\* interleaving of its fetch_update calls was, the Store and the multiset of
\* the errors returned are those of the sequential update of the same
\* Store, filesystem and projection, in every order of the update set.
C13_ParallelAsSequential ==
    AtReturn =>
        \A order \in Orders(UpdateSet0) :
            LET seq == SeqRun(upd.store0, <<>>, order)
            IN  /\ store = seq.store
                /\ BagOf(ret.val.errs) = BagOf(seq.errs)

\* C13 witness: the call returned after two of its fetch_update calls were
\* inside the Store at the same time, both having run the Producer, one of
\* them ending in an error of the Store.
C13_Witness ==
    /\ AtReturn
    /\ upd.overlapped
    /\ \A p \in Files : upd.calls[p] = 1 /\ upd.produced[p] = 1
    /\ \E p \in Files : StoreFailed(p)
    /\ Len(ret.val.errs) >= 1

(***************************************************************************)
(* The life of a projection (ProjSpec).                                    *)
(***************************************************************************)
\* a step that constructs a projection
NewStep == \E i \in LifecycleInputs : New(i[1], i[2], i[3])
ProjectUsingListStep == \E list \in LifecycleLists : ProjectUsingList(list)

Projected(prj) == prj.state \in {"ProjectedUsingFs", "ProjectedUsingList"}

MisuseOfFs == ProjectUsingFs /\ proj.state = "ProjectedUsingList"
MisuseOfList == ProjectUsingListStep /\ proj.state = "ProjectedUsingFs"
MisuseOfFiles == ProjectedFiles /\ proj.state = "Unprojected"

\* C15 as stated: project_using_fs on a ProjectedUsingList projection,
\* project_using_list on a ProjectedUsingFs one and projected_files on an
\* Unprojected one return an error value and leave the projection as it was.
C15_AsStated ==
    [][(MisuseOfFs \/ MisuseOfList \/ MisuseOfFiles) =>
          ret'.val.tag = "Err" /\ proj' = proj]_vars

\* C15 amended: each of the three calls panics, and leaves the projection as
\* it was.
C15_MisusePanics ==
    [][(MisuseOfFs \/ MisuseOfList \/ MisuseOfFiles) =>
          ret'.val = Panic /\ proj' = proj]_vars

\* C15 witness: projected_files was called on an Unprojected projection and
\* panicked.
C15_Witness ==
    /\ ret.op = "projected_files"
    /\ ret.was = "Unprojected"
    /\ ret.val = Panic
    /\ proj.state = "Unprojected"

\* the configured paths of a kind that are not on disk
Missing(paths) == {x \in Range(paths) : ~(x \in Dirs \/ (x \in DOMAIN fs /\ fs[x] # NoFile))}

\* C16: project_using_fs on an Unprojected projection one of whose src or
\* excl paths is not on disk returns PathNotFound for a missing src path,
\* or else ExclPathNotFound for a missing excl path, and leaves the
\* projection Unprojected with no files; with every path on disk it
\* succeeds.
C16_FatalLeavesUnprojected ==
    [][(ProjectUsingFs /\ proj.state = "Unprojected") =>
          IF Missing(proj.src_paths) # {}
          THEN /\ ret'.val.tag = "Err"
               /\ ret'.val.err.kind = "PathNotFound"
               /\ ret'.val.err.path \in Missing(proj.src_paths)
               /\ proj' = proj /\ proj'.projected_files = {}
          ELSE IF Missing(proj.excl_paths) # {}
          THEN /\ ret'.val.tag = "Err"
               /\ ret'.val.err.kind = "ExclPathNotFound"
               /\ ret'.val.err.path \in Missing(proj.excl_paths)
               /\ proj' = proj /\ proj'.projected_files = {}
          ELSE /\ ret'.val.tag = "Ok"
               /\ proj'.state = "ProjectedUsingFs"]_vars

\* C16 witness: project_using_fs failed on a missing excl path, with a src
\* path that is a file on disk, and the projection is Unprojected and empty.
C16_Witness ==
    /\ ret.op = "project_using_fs"
    /\ ret.val.tag = "Err"
    /\ ret.val.err.kind = "ExclPathNotFound"
    /\ proj.state = "Unprojected" /\ proj.projected_files = {}
    /\ \E i \in 1..Len(proj.src_paths) :
          proj.src_paths[i] \in DOMAIN fs /\ fs[proj.src_paths[i]] # NoFile

(***************************************************************************)
(* Constructing projections (NewSpec).                                     *)
(***************************************************************************)
\* a is b or a descendant of b
Under(a, b) == Len(b) <= Len(a) /\ SubSeq(a, 1, Len(b)) = b

\* some src path of the arguments is under some excl path
SomeSrcUnderExcl(args) ==
    \E x \in Range(args[1]), y \in Range(args[2]) : Under(x, y)

\* the error names a src path and an excl path of the arguments, the first
\* under the second
NamesExcludedPair(r, args) ==
    /\ r.tag = "Err"
    /\ r.err.kind = "SrcPathExcluded"
    /\ r.err.src_path \in Range(args[1])
    /\ r.err.excl_path \in Range(args[2])
    /\ Under(r.err.src_path, r.err.excl_path)

\* C17: no src path of a constructed projection is an excl path of it or
\* under one, in every state; and FileProjection::new fails exactly when
\* some src path is under (or is) some excl path, with SrcPathExcluded
\* naming such a pair.
C17_SrcNeverExcluded ==
    /\ proj # NoProjection =>
          \A x \in Range(proj.src_paths), y \in Range(proj.excl_paths) :
              ~Under(x, y)
    /\ ret.op = "new" =>
          /\ ret.val.tag = "Err" <=> SomeSrcUnderExcl(ret.args)
          /\ ret.val.tag = "Err" => NamesExcludedPair(ret.val, ret.args)

\* C17 witness: new failed on two src paths and one excl path, naming the
\* second src path, which lies deeper than the excl path, while a projection
\* made earlier has been projected.
C17_Witness ==
    /\ ret.op = "new"
    /\ ret.val.tag = "Err"
    /\ Len(ret.args[1]) = 2
    /\ ret.val.err.src_path = ret.args[1][2]
    /\ Len(ret.val.err.src_path) > Len(ret.val.err.excl_path)
    /\ proj # NoProjection /\ proj.state = "ProjectedUsingFs"

\* the orders a list can be given in
Reorderings(list) ==
    {[i \in 1..Len(list) |-> list[o[i]]] : o \in Orders(1..Len(list))}

\* some src path and some excl path of the arguments are nested, either in
\* the other
SomeNested(args) ==
    \E x \in Range(args[1]), y \in Range(args[2]) : Under(x, y) \/ Under(y, x)

\* C18 as stated: new fails whenever a src path and an excl path are nested
\* one in the other, in either direction.
C18_AsStated ==
    (ret.op = "new" /\ SomeNested(ret.args)) => ret.val.tag = "Err"

\* C18 amended: when some src path is under (or is) some excl path, new
\* fails and names such a pair, in whatever order the two lists are given.
C18_ExcludedSrcFailsInAnyOrder ==
    (ret.op = "new" /\ SomeSrcUnderExcl(ret.args)) =>
        \A s \in Reorderings(ret.args[1]), e \in Reorderings(ret.args[2]) :
            NamesExcludedPair(new(s, e, ret.args[3]), ret.args)

\* C18 witness: new failed on two src paths and two excl paths, the pair it
\* names being the second of each list.
C18_Witness ==
    /\ ret.op = "new"
    /\ ret.val.tag = "Err"
    /\ Len(ret.args[1]) = 2 /\ Len(ret.args[2]) = 2
    /\ ret.val.err.src_path = ret.args[1][2]
    /\ ret.val.err.excl_path = ret.args[2][2]
    /\ ~Under(ret.args[1][1], ret.args[2][1])

(***************************************************************************)
(* What a projection contains and what it projects (ProjSpec).             *)
(***************************************************************************)
\* p is a src path or under one, and is no excl path nor under one
InScope(prj, p) ==
    /\ \E x \in Range(prj.src_paths) : Under(p, x)
    /\ ~\E y \in Range(prj.excl_paths) : Under(p, y)

ContainsStep == \E p \in ContainsInputs : Contains(p)

\* C19: contains(p) is true exactly when p is a src path or under one and
\* is no excl path nor under one, in every state of the projection; the
\* call leaves the projection as it is, and projecting changes the answer
\* for no path.
C19_ContainsIsScope ==
    [][/\ ContainsStep =>
              ret'.val.is = InScope(proj, ret'.path) /\ proj' = proj
       /\ (~NewStep /\ proj # NoProjection) =>
              \A p \in ContainsInputs : contains(proj', p) = contains(proj, p)]_vars

\* C19 witness: contains was called on a projection made from a list, on a
\* path under a src path and under an excl path, and answered no.
C19_Witness ==
    /\ ret.op = "contains"
    /\ proj.state = "ProjectedUsingList"
    /\ \E x \in Range(proj.src_paths) : Under(ret.path, x)
    /\ \E y \in Range(proj.excl_paths) : Under(ret.path, y)
    /\ ~ret.val.is

\* two extensions that differ at most in the case of their letters
SameIgnoringCase(a, b) ==
    a = b \/ {a, b} = {"txt", "TXT"} \/ {a, b} = {"mp4", "MP4"}

\* the entry is in scope and its name has no excluded extension
Kept(prj, entry) ==
    /\ InScope(prj, entry)
    /\ ~\E x \in Range(prj.excl_exts) :
            SameIgnoringCase(entry[Len(entry)].ext, x)

\* the regular files under a src path all of whose entries, from the src
\* path down to the file, are kept
Reached(prj, f) ==
    {n \in DOMAIN f :
        /\ f[n] # NoFile
        /\ \E r \in Range(prj.src_paths) :
              /\ Under(n, r)
              /\ \A k \in Len(r)..Len(n) : Kept(prj, SubSeq(n, 1, k))}

\* C20: a project_using_fs that succeeds on an Unprojected projection
\* leaves as projected_files exactly the regular files reached from the src
\* paths through entries (directories and the file) that are in scope and
\* have no excluded extension, compared without regard to case; nothing
\* below a directory that is filtered out is in the set.  With src /videos
\* holding a.mp4, b.mp4 and notes.txt and the extension txt excluded, the
\* files of /videos in the set are a.mp4 and b.mp4.
C20_ProjectedIsReached ==
    [][(ProjectUsingFs /\ proj.state = "Unprojected" /\ ret'.val.tag = "Ok") =>
          /\ proj'.projected_files = Reached(proj, fs)
          /\ (/\ proj.src_paths = <<V>> /\ proj.excl_paths = <<>>
              /\ proj.excl_exts = <<"txt">>
              /\ fs[VA] # NoFile /\ fs[VB] # NoFile /\ fs[VN] # NoFile) =>
                 /\ proj'.projected_files \cap {VA, VB, VN} = {VA, VB}
                 /\ VTC \notin proj'.projected_files]_vars

\* C20 witness: the projection of /videos with txt excluded was made from
\* the filesystem and is a.mp4 and b.mp4, with notes.txt and the file under
\* the directory d.TXT on disk.
C20_Witness ==
    /\ ret.op = "project_using_fs" /\ ret.was = "Unprojected"
    /\ proj.state = "ProjectedUsingFs"
    /\ proj.src_paths = <<V>> /\ proj.excl_exts = <<"txt">>
    /\ proj.projected_files = {VA, VB}
    /\ fs[VN] # NoFile /\ fs[VTC] # NoFile

(***************************************************************************)
(* Projecting from a list (ProjSpec).                                      *)
(***************************************************************************)
\* C21: project_using_list on an Unprojected projection leaves as
\* projected_files exactly the candidates that are in scope, and the state
\* ProjectedUsingList; the excluded extensions play no part, so a candidate
\* in scope whose extension is excluded is in the set.
C21_ListFilteredByScope ==
    [][(ProjectUsingListStep /\ proj.state = "Unprojected") =>
          /\ proj'.projected_files =
                {c \in Range(ret'.list) : InScope(proj, c)}
          /\ proj'.state = "ProjectedUsingList"
          /\ \A c \in Range(ret'.list) :
                (InScope(proj, c) /\ ~Kept(proj, c)) =>
                    c \in proj'.projected_files]_vars

\* C21 witness: a projection with txt excluded was made from a list, and
\* holds notes.txt, which is not on disk, and not the candidate under the
\* excl path.
C21_Witness ==
    /\ ret.op = "project_using_list" /\ ret.was = "Unprojected"
    /\ proj.state = "ProjectedUsingList"
    /\ \E x \in Range(proj.excl_exts) : SameIgnoringCase(x, "txt")
    /\ VN \in Range(ret.list) /\ VN \in proj.projected_files
    /\ fs[VN] = NoFile

(***************************************************************************)
(* fetch (Spec).                                                           *)
(***************************************************************************)
FetchStep == \E p \in Files : Fetch(p)

\* C22: fetch changes no Store entry; it returns the hash of the Success
\* record the Store holds for the path, and an error when the Store holds
\* no entry or a Failure record for it, whatever the file on disk is.
C22_FetchReadsOnly ==
    [][FetchStep =>
          LET p == ret'.path
          IN  /\ store' = store
              /\ ret'.val.tag = "Ok" <=> p \in SuccessKeys(store)
              /\ ret'.val.tag = "Ok" => ret'.val.hash = store[p].value.val.hash
              /\ ret'.val.tag # "Ok" => ret'.val.tag = "Err"]_vars

\* C22 witness: fetch returned the hash of a path whose file is no longer
\* on disk, and failed on another path, which has a Failure record.
C22_Witness ==
    /\ ret.op = "fetch"
    /\ ret.val.tag = "Ok"
    /\ fs[ret.path] = NoFile
    /\ store[ret.path].present
    /\ \E q \in Files : store[q].present /\ ~store[q].value.ok

(***************************************************************************)
(* The files of a projection are in its scope (ProjSpec).                  *)
(***************************************************************************)
\* C23: in every state of a projection every path of projected_files is
\* under some src path and under no excl path, and projected_files is empty
\* while the projection is Unprojected.
C23_ProjectedInScope ==
    proj # NoProjection =>
        /\ \A p \in proj.projected_files : InScope(proj, p)
        /\ proj.state = "Unprojected" => proj.projected_files = {}

\* C23 witness: a projection with an excl path was made from a list that
\* names a path under the excl path, and holds the other candidates.
C23_Witness ==
    /\ ret.op = "project_using_list" /\ ret.was = "Unprojected"
    /\ proj.state = "ProjectedUsingList"
    /\ proj.projected_files # {}
    /\ \E c \in Range(ret.list), y \in Range(proj.excl_paths) : Under(c, y)

====
